---- MODULE Spec2Model ----
(***************************************************************************)
(* A model of twisted._threads._team.Team: a pool of workers whose state   *)
(* (idle, busyCount, pending, toShrink, shouldQuitCoordinator) is mutated  *)
(* only by closures run one at a time by the coordinator (an               *)
(* IExclusiveWorker).  Callers and workers run concurrently with it.       *)
(***************************************************************************)
EXTENDS Integers, Sequences, FiniteSets, Bags, TLC

(* ---- bounds of the model ---- *)
MaxCalls == 3
MaxWorkers == 2
MaxN == 2
NumCallers == 2

Workers == 1..MaxWorkers
Tasks == 1..MaxCalls

(* Optional[...] = None, for a worker, a task or the argument of shrink *)
None == 0 - 1

NoOp == [kind |-> "none", n |-> 0, task |-> None, worker |-> None]

VARIABLES
    quit,                   \* Team._quit: the Quit flag
    armed,                  \* the closures callers hold between check and submission
    calls,                  \* number of public calls made so far
    tasks,                  \* number of tasks do() has taken so far
    lastCall,               \* the last public call and whether it raised
    coordQ,                 \* closures submitted to the coordinator, FIFO
    rejected,               \* closures the coordinator refused after its quit()
    idle,                   \* Team._idle
    busyCount,              \* Team._busyCount
    pending,                \* Team._pending
    shouldQuitCoordinator,  \* Team._shouldQuitCoordinator
    toShrink,               \* Team._toShrink
    created,                \* number of workers createWorker has returned
    wq,                     \* per worker: tasks passed to worker.do, not yet run
    inflight,               \* per worker: task whose idleAndPending has not run
    wquit,                  \* per worker: number of quit() calls received
    wfailed,                \* per worker: a task has failed on it
    coordQuit,              \* number of coordinator.quit() calls
    coordQuitAt,            \* the Team's state at each coordinator.quit()
    workerQuitAt,           \* the circumstances of each worker.quit()
    workerDoAt,             \* the circumstances of each worker.do()
    handed,                 \* per task: times passed to a worker's do()
    ran,                    \* per task: times executed
    outcome,                \* per task: "none", "ok" or "failed"
    logged,                 \* per task: calls of logException
    completions,            \* per task: idleAndPending closures submitted
    pendLog,                \* tasks in the order they were appended to pending
    drainLog,               \* tasks in the order they were popped from pending
    coordinated,            \* tasks whose coordinateThisTask closure has run
    owed                    \* the busy workers, and their tasks, at each shrink()

teamVars == <<idle, busyCount, pending, shouldQuitCoordinator, toShrink>>
callVars == <<quit, armed, calls, tasks, lastCall>>
factoryVars == <<created>>
workerVars == <<wq, inflight, wquit, wfailed>>
taskVars == <<handed, ran, outcome, logged, completions>>
logVars == <<coordQuit, coordQuitAt, workerQuitAt, workerDoAt, pendLog, drainLog,
             coordinated, owed>>
vars == <<quit, armed, calls, tasks, lastCall, coordQ, rejected, idle, busyCount,
          pending, shouldQuitCoordinator, toShrink, created, wq,
          inflight, wquit, wfailed, coordQuit, coordQuitAt, workerQuitAt,
          workerDoAt, handed, ran, outcome, logged, completions, pendLog,
          drainLog, coordinated, owed>>

(* ---- the state a coordinator closure works on, as one record; avail is ---- *)
(* ---- the number of workers createWorker returns in it before None     ---- *)
Team(k) ==
    [idle |-> idle, busyCount |-> busyCount, pending |-> pending,
     shouldQuitCoordinator |-> shouldQuitCoordinator, toShrink |-> toShrink,
     created |-> created, avail |-> k, wq |-> wq, inflight |-> inflight,
     wquit |-> wquit, wfailed |-> wfailed, coordQuit |-> coordQuit,
     coordQuitAt |-> coordQuitAt, workerQuitAt |-> workerQuitAt,
     workerDoAt |-> workerDoAt, handed |-> handed, pendLog |-> pendLog,
     drainLog |-> drainLog]

Install(s) ==
    /\ idle' = s.idle
    /\ busyCount' = s.busyCount
    /\ pending' = s.pending
    /\ shouldQuitCoordinator' = s.shouldQuitCoordinator
    /\ toShrink' = s.toShrink
    /\ created' = s.created
    /\ wq' = s.wq
    /\ inflight' = s.inflight
    /\ wquit' = s.wquit
    /\ wfailed' = s.wfailed
    /\ coordQuit' = s.coordQuit
    /\ coordQuitAt' = s.coordQuitAt
    /\ workerQuitAt' = s.workerQuitAt
    /\ workerDoAt' = s.workerDoAt
    /\ handed' = s.handed
    /\ pendLog' = s.pendLog
    /\ drainLog' = s.drainLog

InFlightCount(s) == Cardinality({w \in Workers : s.inflight[w] # None})
LiveCount(s) == Cardinality({w \in 1..s.created : s.wquit[w] = 0})

(* ---- the collaborators ---- *)

\* IWorker.quit() on worker w
workerQuit(s, w) ==
    [s EXCEPT !.wquit[w] = @ + 1,
              !.workerQuitAt = @ \cup
                  {[worker |-> w, wasIdle |-> w \in s.idle,
                    task |-> s.inflight[w], priorQuits |-> s.wquit[w]]}]

\* IWorker.do(doWork) on worker w, doWork being the wrapper of task
workerDo(s, w, task) ==
    [s EXCEPT !.wq[w] = Append(@, task),
              !.inflight[w] = task,
              !.handed[task] = @ + 1,
              !.workerDoAt = @ \cup
                  {[worker |-> w, afterQuit |-> s.wquit[w] > 0,
                    whileBusy |-> s.inflight[w] # None,
                    afterFailure |-> s.wfailed[w]]}]

\* IExclusiveWorker.quit() on the coordinator
coordinatorQuit(s) ==
    [s EXCEPT !.coordQuit = @ + 1,
              !.coordQuitAt = @ \cup
                  {[shouldQuitCoordinator |-> s.shouldQuitCoordinator,
                    busyCount |-> s.busyCount,
                    inFlight |-> InFlightCount(s),
                    idle |-> Cardinality(s.idle),
                    live |-> LiveCount(s)]}]

\* createWorker(): the new worker, or None when out of resources
createWorker(s) == IF s.avail > 0 THEN s.created + 1 ELSE None
afterCreate(s) == [s EXCEPT !.created = @ + 1, !.avail = @ - 1]

(* ---- Team's methods run by the coordinator; each yields the set of ---- *)
(* ---- states it can end in (set.pop() takes an arbitrary element)   ---- *)

RECURSIVE quitLoop(_, _)
quitLoop(s, k) ==
    IF k <= 0 THEN {s}
    ELSE IF s.idle # {}
         THEN UNION {quitLoop([workerQuit(s, w) EXCEPT !.idle = @ \ {w}],
                              k - 1) : w \in s.idle}
         ELSE quitLoop([s EXCEPT !.toShrink = @ + 1], k - 1)

\* quitIdlers without the "_busyCount == 0" test before coordinator.quit()
quitIdlersNoBusyTest(s, n) ==
    LET n0 == IF n = None THEN Cardinality(s.idle) + s.busyCount ELSE n
    IN  {IF r.shouldQuitCoordinator
         THEN coordinatorQuit(r) ELSE r : r \in quitLoop(s, n0)}

\* quitIdlers whose default n counts the idle workers only
quitIdlersIdleOnly(s, n) ==
    LET n0 == IF n = None THEN Cardinality(s.idle) ELSE n
    IN  {IF r.shouldQuitCoordinator /\ r.busyCount = 0
         THEN coordinatorQuit(r) ELSE r : r \in quitLoop(s, n0)}

quitIdlers(s, n) ==
    LET n0 == IF n = None THEN Cardinality(s.idle) + s.busyCount ELSE n
    IN  {IF r.shouldQuitCoordinator /\ r.busyCount = 0
         THEN coordinatorQuit(r) ELSE r : r \in quitLoop(s, n0)}

\* coordinateThisTask with "_busyCount += 1" before the test for None
coordinateThisTaskCountsFirst(s, task) ==
    IF s.idle # {}
    THEN {workerDo([s EXCEPT !.idle = @ \ {w}, !.busyCount = @ + 1], w, task)
             : w \in s.idle}
    ELSE IF createWorker(s) = None
         THEN {[s EXCEPT !.busyCount = @ + 1,
                         !.pending = Append(@, task),
                         !.pendLog = Append(@, task)]}
         ELSE {workerDo([afterCreate(s) EXCEPT !.busyCount = @ + 1],
                        createWorker(s), task)}

\* coordinateThisTask that looks an idle worker up without popping it
coordinateThisTaskKeepsIdle(s, task) ==
    IF s.idle # {}
    THEN {workerDo([s EXCEPT !.busyCount = @ + 1], w, task) : w \in s.idle}
    ELSE IF createWorker(s) = None
         THEN {[s EXCEPT !.pending = Append(@, task),
                         !.pendLog = Append(@, task)]}
         ELSE {workerDo([afterCreate(s) EXCEPT !.busyCount = @ + 1],
                        createWorker(s), task)}

\* coordinateThisTask that returns without "self._pending.append(task)"
coordinateThisTaskDropsTask(s, task) ==
    IF s.idle # {}
    THEN {workerDo([s EXCEPT !.idle = @ \ {w}, !.busyCount = @ + 1], w, task)
             : w \in s.idle}
    ELSE IF createWorker(s) = None
         THEN {s}
         ELSE {workerDo([afterCreate(s) EXCEPT !.busyCount = @ + 1],
                        createWorker(s), task)}

\* coordinateThisTask that asks the factory before it looks at idle
coordinateThisTaskCreatesFirst(s, task) ==
    IF createWorker(s) # None
    THEN {workerDo([afterCreate(s) EXCEPT !.busyCount = @ + 1],
                   createWorker(s), task)}
    ELSE IF s.idle # {}
         THEN {workerDo([s EXCEPT !.idle = @ \ {w}, !.busyCount = @ + 1],
                        w, task) : w \in s.idle}
         ELSE {[s EXCEPT !.pending = Append(@, task),
                         !.pendLog = Append(@, task)]}

coordinateThisTask(s, task) ==
    IF s.idle # {}
    THEN {workerDo([s EXCEPT !.idle = @ \ {w}, !.busyCount = @ + 1], w, task)
             : w \in s.idle}
    ELSE IF createWorker(s) = None
         THEN {[s EXCEPT !.pending = Append(@, task),
                         !.pendLog = Append(@, task)]}
         ELSE {workerDo([afterCreate(s) EXCEPT !.busyCount = @ + 1],
                        createWorker(s), task)}

\* recycleWorker without the "elif self._shouldQuitCoordinator" branch
recycleWorkerNoShutdown(s, worker) ==
    LET s1 == [s EXCEPT !.idle = @ \cup {worker}]
    IN  IF s1.pending # <<>>
        THEN coordinateThisTask(
                 [s1 EXCEPT !.pending = Tail(@),
                            !.drainLog = Append(@, Head(s1.pending))],
                 Head(s1.pending))
        ELSE IF s1.toShrink > 0
             THEN {[workerQuit([s1 EXCEPT !.toShrink = @ - 1], worker)
                       EXCEPT !.idle = @ \ {worker}]}
             ELSE {s1}

\* recycleWorker that takes the newest pending task: pop() for popleft()
recycleWorkerPopRight(s, worker) ==
    LET s1 == [s EXCEPT !.idle = @ \cup {worker}]
        last == s1.pending[Len(s1.pending)]
    IN  IF s1.pending # <<>>
        THEN coordinateThisTask(
                 [s1 EXCEPT !.pending = SubSeq(@, 1, Len(@) - 1),
                            !.drainLog = Append(@, last)],
                 last)
        ELSE IF s1.shouldQuitCoordinator
             THEN quitIdlers(s1, None)
             ELSE IF s1.toShrink > 0
                  THEN {[workerQuit([s1 EXCEPT !.toShrink = @ - 1], worker)
                            EXCEPT !.idle = @ \ {worker}]}
                  ELSE {s1}

\* recycleWorker without the "if self._pending" branch
recycleWorkerNoDrain(s, worker) ==
    LET s1 == [s EXCEPT !.idle = @ \cup {worker}]
    IN  IF s1.shouldQuitCoordinator
        THEN quitIdlers(s1, None)
        ELSE IF s1.toShrink > 0
             THEN {[workerQuit([s1 EXCEPT !.toShrink = @ - 1], worker)
                       EXCEPT !.idle = @ \ {worker}]}
             ELSE {s1}

\* recycleWorker without "self._toShrink -= 1" in the last branch
recycleWorkerKeepsIOU(s, worker) ==
    LET s1 == [s EXCEPT !.idle = @ \cup {worker}]
    IN  IF s1.pending # <<>>
        THEN coordinateThisTask(
                 [s1 EXCEPT !.pending = Tail(@),
                            !.drainLog = Append(@, Head(s1.pending))],
                 Head(s1.pending))
        ELSE IF s1.shouldQuitCoordinator
             THEN quitIdlers(s1, None)
             ELSE IF s1.toShrink > 0
                  THEN {[workerQuit(s1, worker) EXCEPT !.idle = @ \ {worker}]}
                  ELSE {s1}

\* recycleWorker without "self._idle.remove(worker)" in the last branch
recycleWorkerNoRemove(s, worker) ==
    LET s1 == [s EXCEPT !.idle = @ \cup {worker}]
    IN  IF s1.pending # <<>>
        THEN coordinateThisTask(
                 [s1 EXCEPT !.pending = Tail(@),
                            !.drainLog = Append(@, Head(s1.pending))],
                 Head(s1.pending))
        ELSE IF s1.shouldQuitCoordinator
             THEN quitIdlers(s1, None)
             ELSE IF s1.toShrink > 0
                  THEN {workerQuit([s1 EXCEPT !.toShrink = @ - 1], worker)}
                  ELSE {s1}

recycleWorker(s, worker) ==
    LET s1 == [s EXCEPT !.idle = @ \cup {worker}]
    IN  IF s1.pending # <<>>
        THEN coordinateThisTask(
                 [s1 EXCEPT !.pending = Tail(@),
                            !.drainLog = Append(@, Head(s1.pending))],
                 Head(s1.pending))
        ELSE IF s1.shouldQuitCoordinator
             THEN quitIdlers(s1, None)
             ELSE IF s1.toShrink > 0
                  THEN {[workerQuit([s1 EXCEPT !.toShrink = @ - 1], worker)
                            EXCEPT !.idle = @ \ {worker}]}
                  ELSE {s1}

\* the loop of createOneWorker without "self._recycleWorker(worker)"
growLoopNoRecycle(s, k) ==
    LET m == IF k < s.avail THEN k ELSE s.avail
    IN  {[s EXCEPT !.created = @ + m, !.avail = @ - m]}

RECURSIVE growLoop(_, _)
growLoop(s, k) ==
    IF k <= 0 THEN {s}
    ELSE IF createWorker(s) = None THEN {s}
         ELSE UNION {growLoop(r, k - 1)
                        : r \in recycleWorker(afterCreate(s), createWorker(s))}

\* createOneWorker with "range(n + 1)" for "range(n)"
createOneWorkerOneMore(s, n) == growLoop(s, n + 1)

createOneWorker(s, n) == growLoop(s, n)

\* idleAndPending without "_busyCount -= 1"
idleAndPendingNoDecrement(s, worker) ==
    recycleWorker([s EXCEPT !.inflight[worker] = None], worker)

idleAndPending(s, worker) ==
    recycleWorker([s EXCEPT !.busyCount = @ - 1, !.inflight[worker] = None],
                  worker)

\* startFinishing that quits the coordinator without quitting the idlers
startFinishingKeepsIdlers(s) ==
    quitIdlers([s EXCEPT !.shouldQuitCoordinator = TRUE], 0)

startFinishing(s) ==
    quitIdlers([s EXCEPT !.shouldQuitCoordinator = TRUE], None)

\* what the coordinator does when it runs closure c
runClosure(s, c) ==
    CASE c.kind = "createOneWorker" -> createOneWorker(s, c.n)
      [] c.kind = "quitIdlers" -> quitIdlers(s, c.n)
      [] c.kind = "coordinateThisTask" -> coordinateThisTask(s, c.task)
      [] c.kind = "idleAndPending" -> idleAndPending(s, c.worker)
      [] c.kind = "startFinishing" -> startFinishing(s)

(* ---- the Quit flag and the coordinator's queue ---- *)

\* Quit.check(): raises AlreadyQuit when the flag is set
check == quit

\* coordinator.do(c): queued behind the earlier closures; refused once the
\* coordinator has been told to quit
coordinatorDo(c) ==
    IF coordQuit = 0
    THEN coordQ' = Append(coordQ, c) /\ rejected' = rejected
    ELSE coordQ' = coordQ /\ rejected' = rejected \cup {c.kind}

Init ==
    /\ quit = FALSE
    /\ armed = EmptyBag
    /\ calls = 0
    /\ tasks = 0
    /\ lastCall = [kind |-> "none", raised |-> FALSE]
    /\ coordQ = <<>>
    /\ rejected = {}
    /\ idle = {}
    /\ busyCount = 0
    /\ pending = <<>>
    /\ shouldQuitCoordinator = FALSE
    /\ toShrink = 0
    /\ created = 0
    /\ wq = [w \in Workers |-> <<>>]
    /\ inflight = [w \in Workers |-> None]
    /\ wquit = [w \in Workers |-> 0]
    /\ wfailed = [w \in Workers |-> FALSE]
    /\ coordQuit = 0
    /\ coordQuitAt = {}
    /\ workerQuitAt = {}
    /\ workerDoAt = {}
    /\ handed = [t \in Tasks |-> 0]
    /\ ran = [t \in Tasks |-> 0]
    /\ outcome = [t \in Tasks |-> "none"]
    /\ logged = [t \in Tasks |-> 0]
    /\ completions = [t \in Tasks |-> 0]
    /\ pendLog = <<>>
    /\ drainLog = <<>>
    /\ coordinated = {}
    /\ owed = {}

(* ---- public methods: the check, then (as a later step) the submission ---- *)

\* the first half of grow/shrink/do: self._quit.check()
Call(kind, op) ==
    /\ calls < MaxCalls
    /\ BagCardinality(armed) < NumCallers
    /\ calls' = calls + 1
    /\ lastCall' = [kind |-> kind, raised |-> check]
    /\ armed' = IF check THEN armed ELSE armed (+) SetToBag({op})
    /\ tasks' = IF check \/ op.task = None THEN tasks ELSE tasks + 1
    /\ UNCHANGED <<quit, coordQ, rejected, teamVars, factoryVars, workerVars,
                   taskVars, logVars>>

grow(n) ==
    Call("grow", [NoOp EXCEPT !.kind = "createOneWorker", !.n = n])

shrink(n) ==
    Call("shrink", [NoOp EXCEPT !.kind = "quitIdlers", !.n = n])

\* do without "self._quit.check()"
doNoCheck ==
    /\ calls < MaxCalls
    /\ BagCardinality(armed) < NumCallers
    /\ calls' = calls + 1
    /\ lastCall' = [kind |-> "do", raised |-> FALSE]
    /\ armed' = armed (+) SetToBag({[NoOp EXCEPT !.kind = "coordinateThisTask",
                                                 !.task = tasks + 1]})
    /\ tasks' = tasks + 1
    /\ UNCHANGED <<quit, coordQ, rejected, teamVars, factoryVars, workerVars,
                   taskVars, logVars>>

do ==
    Call("do", [NoOp EXCEPT !.kind = "coordinateThisTask", !.task = tasks + 1])

\* the first half of quit: self._quit.set()
Quit ==
    /\ calls < MaxCalls
    /\ BagCardinality(armed) < NumCallers
    /\ calls' = calls + 1
    /\ lastCall' = [kind |-> "quit", raised |-> FALSE]
    /\ quit' = TRUE
    /\ armed' = armed (+) SetToBag({[NoOp EXCEPT !.kind = "startFinishing"]})
    /\ UNCHANGED <<tasks, coordQ, rejected, teamVars, factoryVars, workerVars,
                   taskVars, logVars>>

\* the second half of every public method: self._coordinator.do(closure)
Submit(op) ==
    /\ BagIn(op, armed)
    /\ coordinatorDo(op)
    /\ armed' = armed (-) SetToBag({op})
    /\ UNCHANGED <<quit, calls, tasks, lastCall, teamVars, factoryVars, workerVars,
                   taskVars, logVars>>

(* ---- the coordinator runs the closure at the head of its queue; what ---- *)
(* ---- it accepted before its own quit() it still runs, in order       ---- *)
Coordinate ==
    /\ coordQ # <<>>
    /\ \E k \in 0..(MaxWorkers - created) :
          \E r \in runClosure(Team(k), Head(coordQ)) : Install(r)
    /\ coordQ' = Tail(coordQ)
    /\ coordinated' = IF Head(coordQ).kind = "coordinateThisTask"
                      THEN coordinated \cup {Head(coordQ).task} ELSE coordinated
    /\ owed' = IF Head(coordQ).kind = "quitIdlers" /\ Head(coordQ).n = None
               THEN owed \cup {[worker |-> w, task |-> inflight[w]]
                                  : w \in {v \in Workers : inflight[v] # None}}
               ELSE owed
    /\ UNCHANGED <<callVars, rejected, ran, outcome, logged, completions>>

(* ---- a worker runs doWork: the task, the logger, idleAndPending ---- *)
\* doWork whose idleAndPending is skipped when the task raises
doWorkNoCompletionOnFailure(w, fails) ==
    /\ wq[w] # <<>>
    /\ LET task == Head(wq[w])
       IN  /\ wq' = [wq EXCEPT ![w] = Tail(@)]
           /\ ran' = [ran EXCEPT ![task] = @ + 1]
           /\ outcome' = [outcome EXCEPT ![task] = IF fails THEN "failed" ELSE "ok"]
           /\ logged' = [logged EXCEPT ![task] = IF fails THEN @ + 1 ELSE @]
           /\ wfailed' = [wfailed EXCEPT ![w] = @ \/ fails]
           /\ IF fails
              THEN UNCHANGED <<completions, coordQ, rejected>>
              ELSE /\ completions' = [completions EXCEPT ![task] = @ + 1]
                   /\ coordinatorDo([NoOp EXCEPT !.kind = "idleAndPending",
                                                 !.worker = w])
    /\ UNCHANGED <<callVars, teamVars, factoryVars, inflight, wquit, handed,
                   logVars>>

doWork(w, fails) ==
    /\ wq[w] # <<>>
    /\ LET task == Head(wq[w])
       IN  /\ wq' = [wq EXCEPT ![w] = Tail(@)]
           /\ ran' = [ran EXCEPT ![task] = @ + 1]
           /\ outcome' = [outcome EXCEPT ![task] = IF fails THEN "failed" ELSE "ok"]
           /\ logged' = [logged EXCEPT ![task] = IF fails THEN @ + 1 ELSE @]
           /\ wfailed' = [wfailed EXCEPT ![w] = @ \/ fails]
           /\ completions' = [completions EXCEPT ![task] = @ + 1]
           /\ coordinatorDo([NoOp EXCEPT !.kind = "idleAndPending", !.worker = w])
    /\ UNCHANGED <<callVars, teamVars, factoryVars, inflight, wquit, handed,
                   logVars>>

Next ==
    \/ \E n \in 0..MaxN : grow(n)
    \/ \E n \in {None} \cup (0..MaxN) : shrink(n)
    \/ do
    \/ Quit
    \/ \E op \in BagToSet(armed) : Submit(op)
    \/ Coordinate
    \/ \E w \in Workers, fails \in BOOLEAN : doWork(w, fails)

Spec == Init /\ [][Next]_vars

\* Threads keep running: while the coordinator has a closure to run, a worker
\* a task to run or a caller a closure to submit, one of them takes its step.
\* (Callers need not call; every behaviour makes finitely many steps, so no
\* thread can starve another.)
Progress ==
    \/ Coordinate
    \/ \E w \in Workers, fails \in BOOLEAN : doWork(w, fails)
    \/ \E op \in BagToSet(armed) : Submit(op)

FairSpec == Spec /\ WF_vars(Progress)

(* ---- steps, as seen from the outside ---- *)

\* the coordinator ran the closure at the head of its queue
CoordStep == coordQ # <<>> /\ coordQ' = Tail(coordQ)
CoordStepOf(kind) == CoordStep /\ Head(coordQ).kind = kind

\* a caller entered grow, shrink or do
GuardedCall == calls' # calls /\ lastCall'.kind \in {"grow", "shrink", "do"}

QuitWorkers == {w \in Workers : wquit[w] > 0}

(* ---- C1 ---- *)
\* C1: every coordinator.quit() happened in a state where
\* shouldQuitCoordinator was true and busyCount was 0, and where no
\* dispatched task was still waiting for its idleAndPending closure to run.
C1_CoordinatorQuitOnlyWhenNotBusy ==
    \A r \in coordQuitAt :
        r.shouldQuitCoordinator /\ r.busyCount = 0 /\ r.inFlight = 0

\* the coordinator was quit after a task had been dispatched and completed
C1_Witness ==
    /\ coordQuit > 0
    /\ \E t \in Tasks : handed[t] > 0 /\ completions[t] > 0

(* ---- C2 ---- *)
\* C2: a call of grow, shrink or do made once the Quit flag is set raises
\* AlreadyQuit, leaves the caller with no closure to submit, submits nothing
\* to the coordinator and leaves idle, busyCount, pending, toShrink and
\* shouldQuitCoordinator as they were.
C2_CallsAfterQuitRaise ==
    [][(quit /\ GuardedCall) =>
          /\ lastCall'.raised
          /\ armed' = armed
          /\ coordQ' = coordQ
          /\ UNCHANGED teamVars]_vars

\* a guarded method was called after quit() and raised
C2_Witness ==
    quit /\ lastCall.raised /\ lastCall.kind \in {"grow", "shrink", "do"}

(* ---- C4 ---- *)
\* C4: between coordinator closures |idle| + busyCount is the number of workers
\* created minus the number of workers told to quit, and it decreases only in
\* a step in which some worker receives quit().
C4_WorkerConservation ==
    /\ [](Cardinality(idle) + busyCount = created - Cardinality(QuitWorkers))
    /\ [][Cardinality(idle') + busyCount' < Cardinality(idle) + busyCount
            => workerQuitAt' # workerQuitAt]_vars

\* one worker has been retired while another is busy
C4_Witness == QuitWorkers # {} /\ busyCount > 0

(* ---- C3 ---- *)
\* C3: once quit() has set the flag the coordinator eventually receives
\* quit(); a startFinishing closure that finds busyCount = 0 makes the call
\* itself, and otherwise the first call is made by the idleAndPending closure
\* of the last busy worker, run with pending empty.
C3_ShutdownCompletes ==
    /\ quit ~> (coordQuit > 0)
    /\ [][(CoordStepOf("startFinishing") /\ busyCount = 0)
            => coordQuit' > coordQuit]_vars
    /\ [][(coordQuit = 0 /\ coordQuit' > 0) =>
            \/ CoordStepOf("startFinishing") /\ busyCount = 0
            \/ /\ CoordStepOf("idleAndPending")
               /\ shouldQuitCoordinator
               /\ busyCount = 1
               /\ pending = <<>>]_vars

\* shutdown was deferred to a task's completion: the coordinator has quit
\* after startFinishing had left an IOU for a busy worker
C3_Witness ==
    /\ coordQuit > 0
    /\ toShrink > 0
    /\ \E t \in Tasks : completions[t] > 0

(* ---- C5 ---- *)
InPending(t) == \E i \in 1..Len(pending) : pending[i] = t
Accepted(t) ==
    \/ \E i \in 1..Len(coordQ) : coordQ[i].kind = "coordinateThisTask"
                                  /\ coordQ[i].task = t
    \/ InPending(t)

\* C5: a task that do() has passed to the coordinator is, after quit(),
\* eventually executed, unless it sits in pending with no busy worker left to
\* complete (no worker idle, none could be created, none will be recycled).
C5_AcceptedTaskRuns ==
    \A t \in Tasks :
        (quit /\ Accepted(t)) ~>
            (ran[t] > 0 \/ (InPending(t) /\ busyCount = 0))

(* ---- C6 ---- *)
\* C6: a coordinateThisTask closure run with idle empty and the factory
\* returning None (no worker is created) appends its task to pending and does
\* nothing else: idle and busyCount are unchanged, no worker receives do(),
\* nothing is raised.
C6_Backpressure ==
    [][(CoordStepOf("coordinateThisTask") /\ idle = {}
            /\ created' = created) =>
          /\ pending' = Append(pending, Head(coordQ).task)
          /\ idle' = idle
          /\ busyCount' = busyCount
          /\ workerDoAt' = workerDoAt
          /\ wq' = wq
          /\ handed' = handed
          /\ lastCall' = lastCall
          /\ rejected' = rejected]_vars

\* a task waits in pending and has not been handed to any worker
C6_Witness ==
    \E t \in Tasks : InPending(t) /\ handed[t] = 0 /\ idle = {}

(* ---- C7 ---- *)
\* C7: pending shrinks only in a closure that recycles workers, by at most
\* one task per recycled worker; the tasks removed are the oldest ones, each
\* handed to a worker in that same closure; so the tasks are drained in the
\* order in which they were appended.
C7_FifoDrain ==
    /\ [](pendLog = drainLog \o pending)
    /\ [][Len(pending') < Len(pending) =>
            LET k == Len(pending) - Len(pending')
            IN  /\ CoordStep
                /\ Head(coordQ).kind \in {"idleAndPending", "createOneWorker"}
                /\ k <= (IF Head(coordQ).kind = "idleAndPending"
                         THEN 1 ELSE created' - created)
                /\ pending' = SubSeq(pending, k + 1, Len(pending))
                /\ drainLog' = drainLog \o SubSeq(pending, 1, k)
                /\ \A i \in 1..k :
                       handed'[pending[i]] = handed[pending[i]] + 1]_vars

\* two tasks that waited in pending have both been handed over
C7_Witness ==
    /\ Len(drainLog) >= 2
    /\ \A i \in 1..Len(drainLog) : handed[drainLog[i]] = 1

(* ---- C8 ---- *)
\* C8: a task is run at most once; each run submits exactly one idleAndPending
\* closure and calls the logger once if the task failed and never if it did
\* not; that closure takes one off busyCount before it recycles the worker,
\* which ends up idle, busy again or retired.
C8_FailureContainment ==
    /\ [](\A t \in Tasks :
            /\ ran[t] <= handed[t]
            /\ handed[t] <= 1
            /\ completions[t] = ran[t]
            /\ logged[t] = (IF outcome[t] = "failed" THEN 1 ELSE 0))
    /\ [][CoordStepOf("idleAndPending") =>
            LET w == Head(coordQ).worker
            IN  /\ busyCount' = (busyCount - 1)
                                   + (Len(drainLog') - Len(drainLog))
                /\ \/ w \in idle'
                   \/ inflight'[w] # None
                   \/ wquit'[w] = wquit[w] + 1]_vars

\* a task failed and was logged once, and its worker was given a later task
C8_Witness ==
    /\ \E t \in Tasks : outcome[t] = "failed" /\ logged[t] = 1
                         /\ completions[t] = 1
    /\ \E r \in workerDoAt : r.afterFailure

(* ---- C9 ---- *)
\* C9: every worker.quit() was made on a member of idle with no task
\* dispatched to it; a worker with a task in flight is retired, if at all, in
\* its own idleAndPending closure; a quitIdlers closure asked for more
\* workers than are idle leaves the rest as IOUs in toShrink.
C9_QuitOnlyFromIdle ==
    /\ [](\A r \in workerQuitAt : r.wasIdle /\ r.task = None)
    /\ [][\A w \in Workers :
             (inflight[w] # None /\ wquit'[w] # wquit[w]) =>
                 (CoordStepOf("idleAndPending") /\ Head(coordQ).worker = w)]_vars
    /\ [][CoordStepOf("quitIdlers") =>
            LET n == Head(coordQ).n
                n0 == IF n = None THEN Cardinality(idle) + busyCount ELSE n
                some == IF n0 < Cardinality(idle) THEN n0 ELSE Cardinality(idle)
            IN  /\ Cardinality(idle') = Cardinality(idle) - some
                /\ idle' \subseteq idle
                /\ \A w \in idle \ idle' : wquit'[w] = wquit[w] + 1
                /\ toShrink' = toShrink + (n0 - some)]_vars

\* a worker that was busy when shrink ran has been retired after its task
C9_Witness ==
    \E w \in Workers :
        /\ wquit[w] > 0
        /\ \E r \in workerDoAt : r.worker = w
        /\ ~shouldQuitCoordinator

(* ---- C10 ---- *)
\* C10: no worker receives do() after quit(), no worker that received quit()
\* is in idle, and no worker receives quit() twice.
C10_RetiredWorkersStayRetired ==
    /\ \A r \in workerDoAt : ~r.afterQuit
    /\ \A w \in idle : wquit[w] = 0
    /\ \A w \in Workers : wquit[w] <= 1

\* one worker has been retired and another has a task
C10_Witness ==
    /\ QuitWorkers # {}
    /\ \E w \in Workers \ QuitWorkers : inflight[w] # None

(* ---- C11 ---- *)
\* C11: a worker has at most one task in flight: no worker.do() is made on a
\* worker whose previous task still waits for its idleAndPending closure, no
\* member of idle has a task, and a worker receives do() only in a
\* coordinator step in which it was taken out of idle: it was in idle before
\* the step, or it was created in the step, or the step is its own
\* idleAndPending closure (which puts it into idle first).
C11_OneTaskInFlightPerWorker ==
    /\ [](\A r \in workerDoAt : ~r.whileBusy)
    /\ [](\A w \in Workers : Len(wq[w]) <= 1)
    /\ [](\A w \in idle : inflight[w] = None /\ wq[w] = <<>>)
    /\ [][\A w \in Workers :
             Len(wq'[w]) > Len(wq[w]) =>
                 /\ CoordStep
                 /\ w \notin idle'
                 /\ \/ w \in idle
                    \/ w > created /\ w <= created'
                    \/ Head(coordQ).kind = "idleAndPending" /\
                       Head(coordQ).worker = w]_vars

\* one worker, two tasks: the second was handed to it after the first
C11_Witness ==
    /\ created = 1
    /\ Cardinality({t \in Tasks : handed[t] > 0}) >= 2

(* ---- C12 ---- *)
\* C12: when the closure of grow(n) is about to run on a fresh pool (no
\* idle and no busy worker, pending empty, toShrink = 0, shutdown not
\* begun), then for every k, if createWorker returns k workers before None,
\* the closure ends with exactly min(n, k) idle workers, all of them new,
\* busyCount = 0 and pending empty, with no worker and no coordinator quit;
\* and the step the coordinator takes is one of these.
C12_GrowOnFreshPool ==
    /\ [](/\ coordQ # <<>> /\ Head(coordQ).kind = "createOneWorker"
          /\ idle = {} /\ busyCount = 0 /\ pending = <<>>
          /\ toShrink = 0 /\ ~shouldQuitCoordinator
          => \A k \in 0..(MaxWorkers - created) :
                 LET n == Head(coordQ).n
                     m == IF n < k THEN n ELSE k
                 IN  \A r \in runClosure(Team(k), Head(coordQ)) :
                         /\ r.idle = (created + 1)..(created + m)
                         /\ r.created = created + m
                         /\ r.busyCount = 0
                         /\ r.pending = <<>>
                         /\ r.toShrink = 0
                         /\ r.wquit = wquit
                         /\ r.coordQuit = coordQuit)
    /\ [][/\ CoordStepOf("createOneWorker")
          /\ idle = {} /\ busyCount = 0 /\ pending = <<>>
          /\ toShrink = 0 /\ ~shouldQuitCoordinator
          => /\ idle' = (created + 1)..created'
             /\ created' - created <= Head(coordQ).n
             /\ busyCount' = 0 /\ pending' = <<>>
             /\ lastCall' = lastCall]_vars

\* the only call so far was a grow that filled the pool with idle workers
C12_Witness ==
    /\ calls = 1
    /\ lastCall.kind = "grow"
    /\ Cardinality(idle) = MaxWorkers
    /\ busyCount = 0
    /\ pending = <<>>

(* ---- C13 ---- *)
\* C13 as stated: a worker that was busy when the closure of a shrink()
\* without argument ran is quit the first time it becomes idle: once the
\* idleAndPending closure of the task it had then has run, it has received
\* quit().
C13_BusyWorkersQuitWhenNextIdle ==
    \A o \in owed : inflight[o.worker] = o.task \/ wquit[o.worker] > 0

\* C13, amended: the closure of shrink() without argument, run with i idle
\* and b busy workers, calls quit() on all i idle workers and adds b to
\* toShrink.  Afterwards, while shutdown has not begun, every worker that is
\* recycled with pending empty and toShrink > 0 (one of the b, or a worker
\* created later) is quit in that closure and takes one off toShrink; a
\* worker recycled while pending is not empty takes the oldest pending task
\* instead and leaves toShrink as it is.
C13_ShrinkAll ==
    /\ [][CoordStepOf("quitIdlers") /\ Head(coordQ).n = None =>
             /\ idle' = {}
             /\ \A w \in idle : wquit'[w] = wquit[w] + 1
             /\ \A w \in Workers \ idle : wquit'[w] = wquit[w]
             /\ busyCount' = busyCount
             /\ toShrink' = toShrink + busyCount]_vars
    /\ [][/\ CoordStepOf("idleAndPending")
          /\ ~shouldQuitCoordinator /\ toShrink > 0
          => LET w == Head(coordQ).worker
             IN  IF pending = <<>>
                 THEN /\ wquit'[w] = wquit[w] + 1
                      /\ idle' = idle
                      /\ toShrink' = toShrink - 1
                 ELSE /\ wquit' = wquit
                      /\ inflight'[w] = Head(pending)
                      /\ toShrink' = toShrink]_vars
    /\ [][/\ CoordStepOf("createOneWorker")
          /\ ~shouldQuitCoordinator /\ pending = <<>>
          => LET new == created' - created
                 some == IF new < toShrink THEN new ELSE toShrink
             IN  /\ toShrink' = toShrink - some
                 /\ \A w \in (created + 1)..(created + some) :
                        wquit'[w] = 1 /\ w \notin idle']_vars

\* a worker that was busy when shrink() ran has been retired after its
\* task, which settled the last of the debt
C13_Witness ==
    /\ ~shouldQuitCoordinator
    /\ toShrink = 0
    /\ \E o \in owed : wquit[o.worker] > 0

(* ---- C14 ---- *)
\* C14: a coordinateThisTask closure that runs while idle is not empty
\* hands its task to a worker taken from idle and does not call the factory:
\* no worker is created, idle loses exactly that worker, busyCount grows by
\* one, and pending, which is empty, stays untouched.
C14_DispatchToIdleWorker ==
    [][CoordStepOf("coordinateThisTask") /\ idle # {} =>
          LET task == Head(coordQ).task
          IN  /\ created' = created
              /\ \E w \in idle :
                     /\ idle' = idle \ {w}
                     /\ inflight' = [inflight EXCEPT ![w] = task]
                     /\ wq' = [wq EXCEPT ![w] = Append(@, task)]
              /\ handed' = [handed EXCEPT ![task] = @ + 1]
              /\ busyCount' = busyCount + 1
              /\ pending = <<>>
              /\ pending' = pending
              /\ pendLog' = pendLog]_vars

\* the only task went to the second worker while the first one, which
\* never had a task, stayed in idle: both were idle when the closure ran
C14_Witness ==
    /\ tasks = 1
    /\ handed[1] = 1
    /\ inflight[2] = 1
    /\ 1 \in idle

C16_TaskConservation ==
    /\ Len(pending) =
           Cardinality(coordinated) - Cardinality({t \in Tasks : handed[t] > 0})
    /\ \A t \in coordinated :
           LET places == {i \in 1..Len(pending) : pending[i] = t}
           IN  \/ Cardinality(places) = 1 /\ handed[t] = 0
               \/ places = {} /\ handed[t] = 1
    /\ \A t \in Tasks \ coordinated : handed[t] = 0 /\ ~InPending(t)
    /\ \A t \in Tasks :
           Cardinality({w \in Workers : inflight[w] = t}) <= handed[t]

\* one task waited in pending and was then handed to a worker while another
\* task is waiting there
C16_Witness ==
    /\ drainLog # <<>>
    /\ handed[Head(drainLog)] = 1
    /\ pending # <<>>

(* ---- C17 ---- *)
\* C17 as stated: in every reachable state in which shutdown has not begun,
\* 0 <= toShrink <= busyCount.
C17_ShrinkDebtWithinBusy ==
    ~shouldQuitCoordinator => 0 <= toShrink /\ toShrink <= busyCount

\* C17, amended: toShrink is never negative.  While shutdown has not begun,
\* toShrink <= busyCount is preserved by every step except the closure of a
\* shrink that asks for more than |idle| + busyCount - toShrink workers
\* (shrink(n) beyond the size of the pool, or shrink() while toShrink > 0):
\* that closure leaves toShrink above busyCount.
C17_ShrinkDebt ==
    /\ [](toShrink >= 0)
    /\ [][/\ ~shouldQuitCoordinator' /\ toShrink <= busyCount
          /\ ~(/\ CoordStepOf("quitIdlers")
               /\ (IF Head(coordQ).n = None
                   THEN Cardinality(idle) + busyCount ELSE Head(coordQ).n)
                  > Cardinality(idle) + busyCount - toShrink)
          => toShrink' <= busyCount']_vars
    /\ [][/\ ~shouldQuitCoordinator /\ toShrink <= busyCount
          /\ CoordStepOf("quitIdlers")
          /\ (IF Head(coordQ).n = None
              THEN Cardinality(idle) + busyCount ELSE Head(coordQ).n)
             > Cardinality(idle) + busyCount - toShrink
          => toShrink' > busyCount']_vars

\* shutdown has not begun and more is owed than one busy worker can settle
C17_Witness ==
    /\ ~shouldQuitCoordinator
    /\ busyCount > 0
    /\ toShrink > busyCount

(* ---- C18 ---- *)
\* C18: between coordinator closures, pending and idle are never both
\* non-empty: while a task waits in pending, no worker is idle.
C18_NoIdleWorkerWhilePending ==
    pending # <<>> => idle = {}

\* a task waits in pending while a worker that finished another task is on
\* its way back: its idleAndPending closure is queued
C18_Witness ==
    /\ pending # <<>>
    /\ \E i \in 1..Len(coordQ) : coordQ[i].kind = "idleAndPending"

(* ---- C19 ---- *)
\* C19: no worker is leaked at shutdown: at every coordinator.quit(), idle
\* was empty and busyCount was 0, and every worker the factory had created
\* had already received quit().
C19_NoWorkerLeakedAtShutdown ==
    \A r \in coordQuitAt : r.idle = 0 /\ r.busyCount = 0 /\ r.live = 0

\* the coordinator was quit after workers had been created, one of which
\* had run a task, and all of them have been quit
C19_Witness ==
    /\ coordQuit > 0
    /\ created = MaxWorkers
    /\ \A w \in Workers : wquit[w] = 1
    /\ \E t \in Tasks : ran[t] > 0

(* ---- C20 ---- *)
\* C20: the coordinator's quit() is invoked at most once, whatever public
\* calls (repeated quit() calls among them) and task completions occur.
C20_CoordinatorQuitAtMostOnce ==
    coordQuit <= 1

(* ---- C21 ---- *)
\* C21: with callers running concurrently, the check and the submission of
\* a public method being separate steps, no closure of grow, shrink, do or
\* of a task's completion is submitted to the coordinator after the
\* coordinator's quit() has been invoked.
C21_NoSubmissionAfterCoordinatorQuit ==
    rejected \cap {"createOneWorker", "quitIdlers", "coordinateThisTask",
                   "idleAndPending"} = {}

====
